---- MODULE Spec2Model ----
(***************************************************************************)
(* Model of the WhatsApp running-coach service.                            *)
(*                                                                         *)
(*   Spec       the chat service of app.py: the session store, the sweep,  *)
(*              reset, and the classify -> route -> respond workflow,      *)
(*              with the requests suspended at their awaits.               *)
(*   SpecParse  the offline pipeline of whatsappvector.py:                 *)
(*              read_whatsapp_chat followed by chunk_messages.             *)
(*   SpecIndex  the indexing run of whatsappvector.py (Chroma) and of      *)
(*              whatsappvector_pinecone.py (Pinecone).                     *)
(*   SpecMigrate  migrate_to_pinecone.py: Chroma collection to Pinecone.   *)
(*   SpecSearch search_whatsapp_context of app_flask.py (Pinecone) and of  *)
(*              app_prod.py (Chroma).                                      *)
(*   SpecFlask  the chat service of app_flask.py: one completion per turn  *)
(*              after a search, with the provider calls that can fail.     *)
(*                                                                         *)
(* Python lists are objects: sessions[sid]["history"] and a request's      *)
(* local conversation_history are references to the same list, so the      *)
(* model keeps a heap of lists (lists) and stores references to them.      *)
(***************************************************************************)
EXTENDS Integers, Sequences, FiniteSets, TLC

\* ------------------------------------------------------------------ bounds
MaxReq == 2          \* chat requests per behaviour
MaxSid == 2          \* distinct session identifiers
MaxTime == 2         \* hours the clock can advance
MaxLines == 4        \* lines of a chat export
MaxChunk == 5        \* largest chunk_size tried
MaxChunks == 201     \* chunks handed to an indexing run
MaxRuns == 2         \* indexing runs per behaviour
MaxVecs == 3         \* vectors in a searched index
MaxK == 2            \* largest n_results tried
MaxSearches == 3     \* searches per behaviour

\* --------------------------------------------------------------- constants
IdleTimeout == 1     \* timedelta(hours=1); the clock counts hours
batch_size == 100    \* chunks per embedding request

None == "None"
NoSid == 0           \* request.session_id is None

\* The handlers that can be suspended at an await at the same time: every
\* request may overlap every other one.
Slots == 1 .. MaxReq
ReqIds == 1 .. MaxReq
SessionIds == 1 .. MaxSid
Refs == 1 .. (MaxSid + MaxReq + 1)
Msgs == {"m1"}
Goals == {"", "goal"}
Events == {"", "event"}
Replies == {"a1"}

VARIABLES
    sessions,   \* app.py sessions: sid -> [history: ref, last_access: time]
    lists,      \* heap of list objects: ref -> sequence of records
    req,        \* the running chat requests: position, locals
    arrived,    \* number of chat requests received so far
    now,        \* datetime.now()
    last,       \* the handler segment that ran last (history variable)
    lines,      \* the chat export being read
    pos,        \* number of lines consumed
    messages,   \* read_whatsapp_chat: messages
    current_message, \* read_whatsapp_chat: current_message
    chunk_size, \* chunk_messages: chunk_size
    chunks,     \* chunk_messages: chunks
    ppc,        \* position of the offline pipeline
    backend,    \* the vector store a script or app is written for
    collection, \* the Chroma collection whatsapp_running_chat
    pindex,     \* the Pinecone index whatsapp-chat
    ipc,        \* position of the indexing run
    batch_i,    \* create_vector_database: i of the batch loop
    calls,      \* the embedding requests of the run, in order
    runs,       \* indexing runs started
    vectors_to_upsert, \* migrate_to_pinecone.py: vectors_to_upsert
    documents,  \* search_whatsapp_context: documents
    searches    \* the searches made so far (history variable)

\* The state of the migration and of the retriever.
xvars == <<vectors_to_upsert, documents, searches>>

\* The state outside the chat service and the parser.
ovars == <<backend, collection, pindex, ipc, batch_i, calls, runs, xvars>>

\* svars: all but the parser's state; pvars: all but the chat service's.
svars == <<sessions, lists, req, arrived, now, last, ovars>>
pvars == <<lines, pos, messages, current_message, chunk_size, chunks, ppc, ovars>>
vars == <<sessions, lists, req, arrived, now, last,
          lines, pos, messages, current_message, chunk_size, chunks, ppc,
          backend, collection, pindex, ipc, batch_i, calls, runs,
          vectors_to_upsert, documents, searches>>

\* ------------------------------------------------------------------ helpers
Last(s) == s[Len(s)]

IsPrefix(s, t) == Len(s) <= Len(t) /\ SubSeq(t, 1, Len(s)) = s

Min(S) == CHOOSE x \in S : \A y \in S : x <= y

\* A list object not yet allocated ( [] creates a new list ).
NewRef(L) == Min(Refs \ DOMAIN L)

\* Lists still referenced by the store or by a running request.
LiveRefs(S, R) ==
    {S[s].history : s \in DOMAIN S}
        \cup {R[k].hist : k \in {x \in Slots : R[x].pc # "idle"}}

Collect(L, S, R) == [x \in (DOMAIN L \cap LiveRefs(S, R)) |-> L[x]]

\* The history of session s as a sequence of records.
History(s) == lists[sessions[s].history]

\* ------------------------------------------------------------- the records
user_message(n, m) ==
    [role |-> "user", agent |-> "client", req |-> n, text |-> m]

\* greeting_result_temp.new_items: the structured output of the classifier.
greeting_items(n, tg, ei) ==
    << [role |-> "assistant", agent |-> "greeting", req |-> n, text |-> "intent"] >>

\* new_items of a responder run: an optional tool call, then the message
\* that carries the final output.
responder_items(n, a, tool, text) ==
    (IF tool THEN << [role |-> "tool", agent |-> a, req |-> n, text |-> "call"] >>
            ELSE << >>)
        \o << [role |-> "assistant", agent |-> a, req |-> n, text |-> text] >>

\* tools=[...] of the agents: file_search reads the archive's vector store,
\* web_search_preview searches the web; Greeting and Agent have no tools.
tools_web_everywhere(a) == {"web_search_preview"}

tools(a) ==
    IF a = "training_info" THEN {"file_search"}
    ELSE IF a = "event_name" THEN {"web_search_preview"}
    ELSE {}

\* Agents that have a tool attached (file_search, web_search_preview).
HasTool(a) == tools(a) # {}

\* ---------------------------------------------------------------- the sweep
cleanup_old_sessions_ge(S, t) ==
    [s \in {x \in DOMAIN S : ~(t - S[x].last_access >= IdleTimeout)} |-> S[s]]

cleanup_old_sessions(S, t) ==
    [s \in {x \in DOMAIN S : ~(t - S[x].last_access > IdleTimeout)} |-> S[s]]

\* ---------------------------------------------------------------- dispatch
\* The if / elif / else of run_workflow_with_history: the responders it
\* runs for a classifier output.  training_info is the archive Q&A
\* responder, event_name the event lookup, agent the fallback.
Dispatch_event_first(tg, ei) ==
    IF ei # "" THEN <<"event_name">>
    ELSE IF tg # "" THEN <<"training_info">>
    ELSE <<"agent">>

Dispatch_no_else(tg, ei) ==
    IF tg # "" THEN <<"training_info">>
    ELSE IF ei # "" THEN <<"event_name">>
    ELSE << >>

Dispatch(tg, ei) ==
    IF tg # "" THEN <<"training_info">>
    ELSE IF ei # "" THEN <<"event_name">>
    ELSE <<"agent">>

\* ------------------------------------------------------------------- state
NoIntent == [training_goal |-> "", event_info |-> ""]

\* A handler that is not running: its locals do not exist.  renewed marks
\* a request whose session_id named a session that its sweep removed.
Idle == [pc |-> "idle", n |-> 0, sid |-> NoSid, hist |-> 0,
         intent |-> NoIntent, ran |-> << >>, renewed |-> FALSE]

NoOp == [op |-> "init", n |-> 0, sid |-> NoSid, swept |-> {}, hit |-> FALSE,
         after_reset |-> FALSE, ran |-> << >>, response |-> None,
         input |-> << >>, called |-> {}]

\* The detail of the 500 reply when the store-back raises KeyError: str(e)
\* of a KeyError is the quoted key.
SessionGone == "Error processing request: '<session_id>'"

ParseIdle ==
    /\ lines = << >>
    /\ pos = 0
    /\ messages = << >>
    /\ current_message = << >>
    /\ chunk_size = 1
    /\ chunks = << >>
    /\ ppc = "off"

\* A vector store that was never created.
NoStore == [exists |-> FALSE, vectors |-> << >>]

\* No indexing run, migration or search is in progress.
OffIdle ==
    /\ backend = "none"
    /\ collection = NoStore
    /\ pindex = NoStore
    /\ ipc = "off"
    /\ batch_i = 0
    /\ calls = << >>
    /\ runs = 0
    /\ vectors_to_upsert = << >>
    /\ documents = << >>
    /\ searches = << >>

\* A turn served earlier (request 0, at time 0, routed to the fallback).
EarlierTurn ==
    <<user_message(0, "m1")>> \o greeting_items(0, "", "")
        \o responder_items(0, "agent", FALSE, "a1")

\* The service has just started, or it holds one session from an earlier
\* turn.
Init ==
    /\ \/ sessions = << >> /\ lists = << >>
       \/ /\ sessions = (1 :> [history |-> 1, last_access |-> 0])
          /\ lists = (1 :> EarlierTurn)
    /\ req = [k \in Slots |-> Idle]
    /\ arrived = 0
    /\ now = 0
    /\ last = NoOp
    /\ ParseIdle
    /\ OffIdle

\* ------------------------------------------------------------ chat, part 1
\* chat() up to its first await: sweep, get or create the session, refresh
\* last_access, append the user message to the session's list.
chat_store_sweep_last(S, sid, ref, t) ==
    LET S2 == IF sid \notin DOMAIN S
                 THEN (sid :> [history |-> ref, last_access |-> t]) @@ S
                 ELSE S
        S3 == [S2 EXCEPT ![sid].last_access = t]
    IN cleanup_old_sessions(S3, t)

chat_store_touch_all(S, sid, ref, t) ==
    LET S1 == cleanup_old_sessions(S, t)
        S2 == IF sid \notin DOMAIN S1
                 THEN (sid :> [history |-> ref, last_access |-> t]) @@ S1
                 ELSE S1
    IN [s \in DOMAIN S2 |-> [S2[s] EXCEPT !.last_access = t]]

chat_store(S, sid, ref, t) ==
    LET S1 == cleanup_old_sessions(S, t)
        S2 == IF sid \notin DOMAIN S1
                 THEN (sid :> [history |-> ref, last_access |-> t]) @@ S1
                 ELSE S1
    IN [S2 EXCEPT ![sid].last_access = t]

\* session_id = request.session_id or str(uuid.uuid4())
FreshIds == {s \in SessionIds :
                /\ s \notin DOMAIN sessions
                /\ \A k \in Slots : req[k].sid # s}

\* Runner.run(greeting, input=conversation_history, ...): what the
\* classifier is given when the run is started.
classifier_input_latest(L, ref) == << Last(L[ref]) >>

classifier_input(L, ref) == L[ref]

\* A request is taken by the first handler that is not running.
FreeSlot(k) == req[k].pc = "idle" /\ \A j \in Slots : req[j].pc = "idle" => k <= j

ChatBegin(k, given, m) ==
    /\ FreeSlot(k)
    /\ arrived < MaxReq
    /\ arrived' = arrived + 1
    /\ \E sid \in (IF given = NoSid THEN FreshIds ELSE {given}) :
        LET n == arrived + 1
            S1 == cleanup_old_sessions(sessions, now)
            S3 == chat_store(sessions, sid, NewRef(lists), now)
            ref == S3[sid].history
            L2 == IF ref \in DOMAIN lists THEN lists ELSE (ref :> << >>) @@ lists
            L3 == [L2 EXCEPT ![ref] = Append(@, user_message(n, m))]
            R3 == [req EXCEPT ![k] = [Idle EXCEPT !.pc = "classify", !.n = n,
                                                  !.sid = sid, !.hist = ref,
                                                  !.renewed = sid \in DOMAIN sessions \ DOMAIN S1]]
        IN /\ sessions' = S3
           /\ req' = R3
           /\ lists' = Collect(L3, S3, R3)
           /\ last' = [NoOp EXCEPT !.op = "chat", !.n = n, !.sid = sid,
                                   !.swept = DOMAIN sessions \ DOMAIN S1,
                                   !.hit = sid \in DOMAIN S1,
                                   !.after_reset = (last.op = "reset" /\ last.hit
                                                        /\ last.sid = sid),
                                   !.input = classifier_input(L3, ref)]
    /\ UNCHANGED <<now>>
    /\ UNCHANGED pvars

\* ------------------------------------------------------------ the workflow
\* conversation_history.extend(...): in place, on the request's list.
extend(L, ref, items) == [L EXCEPT ![ref] = @ \o items]

\* The greeting run returns: its items are appended and the branch of the
\* if / elif / else starts its responder (the next await).  A workflow
\* that runs no branch returns None, and chat fails on result.get.
GreetingReturns(k, tg, ei) ==
    /\ req[k].pc = "classify"
    /\ LET L1 == extend(lists, req[k].hist, greeting_items(req[k].n, tg, ei))
           run == Dispatch(tg, ei)
           int == [training_goal |-> tg, event_info |-> ei]
           R1 == IF run = << >>
                    THEN [req EXCEPT ![k] = Idle]
                    ELSE [req EXCEPT ![k].intent = int, ![k].ran = run,
                                     ![k].pc = "respond"]
       IN /\ req' = R1
          /\ lists' = Collect(L1, sessions, R1)
          /\ last' = [NoOp EXCEPT !.op = "greeting", !.n = req[k].n,
                                  !.sid = req[k].sid, !.ran = run]
    /\ UNCHANGED <<sessions, arrived, now>>
    /\ UNCHANGED pvars

\* Runner.run raises: chat's except turns it into an HTTP 500.
RunFails(k) ==
    /\ req[k].pc \in {"classify", "respond"}
    /\ LET R1 == [req EXCEPT ![k] = Idle]
       IN /\ req' = R1
          /\ lists' = Collect(lists, sessions, R1)
    /\ last' = [NoOp EXCEPT !.op = "error", !.n = req[k].n, !.sid = req[k].sid,
                            !.ran = req[k].ran]
    /\ UNCHANGED <<sessions, arrived, now>>
    /\ UNCHANGED pvars

\* sessions[session_id]["history"] = conversation_history
store_back_skipped(S, sid, ref) == S

store_back(S, sid, ref) == [S EXCEPT ![sid].history = ref]

\* The responder run returns: its items are appended, the workflow returns
\* its final output and chat stores the list back.  A session swept in the
\* meantime makes the store raise KeyError inside the try.
ResponderReturns(k, tool, text) ==
    /\ req[k].pc = "respond"
    /\ tool => HasTool(Head(req[k].ran))
    /\ LET sid == req[k].sid
           ref == req[k].hist
           L1 == extend(lists, ref,
                        responder_items(req[k].n, Head(req[k].ran), tool, text))
           ok == sid \in DOMAIN sessions
           S1 == IF ok THEN store_back(sessions, sid, ref) ELSE sessions
           R1 == [req EXCEPT ![k] = Idle]
       IN /\ sessions' = S1
          /\ req' = R1
          /\ lists' = Collect(L1, S1, R1)
          /\ last' = [NoOp EXCEPT !.op = IF ok THEN "reply" ELSE "error",
                                  !.n = req[k].n, !.sid = sid, !.hit = ok,
                                  !.ran = req[k].ran,
                                  !.response = IF ok THEN text ELSE SessionGone,
                                  !.called = IF tool THEN tools(Head(req[k].ran))
                                                     ELSE {}]
    /\ UNCHANGED <<arrived, now>>
    /\ UNCHANGED pvars

\* ------------------------------------------------------------------- reset
reset_entry_delete(S, sid, ref, t) ==
    [s \in DOMAIN S \ {sid} |-> S[s]]

reset_entry_keep_time(S, sid, ref, t) ==
    [S EXCEPT ![sid].history = ref]

reset_entry(S, sid, ref, t) ==
    [S EXCEPT ![sid] = [history |-> ref, last_access |-> t]]

reset_session(s) ==
    /\ LET hit == s \in DOMAIN sessions
           ref == NewRef(lists)
           S1 == IF hit THEN reset_entry(sessions, s, ref, now) ELSE sessions
           L1 == IF hit THEN (ref :> << >>) @@ lists ELSE lists
       IN /\ sessions' = S1
          /\ lists' = Collect(L1, S1, req)
          /\ last' = [NoOp EXCEPT !.op = "reset", !.sid = s, !.hit = hit]
    /\ UNCHANGED <<req, arrived, now>>
    /\ UNCHANGED pvars

\* ------------------------------------------------------------------- clock
Tick ==
    /\ now < MaxTime
    /\ now' = now + 1
    /\ UNCHANGED <<sessions, lists, req, arrived, last>>
    /\ UNCHANGED pvars

Next ==
    \/ \E k \in Slots, given \in SessionIds \cup {NoSid}, m \in Msgs : ChatBegin(k, given, m)
    \/ \E k \in Slots, tg \in Goals, ei \in Events : GreetingReturns(k, tg, ei)
    \/ \E k \in Slots, tool \in BOOLEAN, text \in Replies : ResponderReturns(k, tool, text)
    \/ \E k \in Slots : RunFails(k)
    \/ \E s \in SessionIds : reset_session(s)
    \/ Tick

Spec == Init /\ [][Next]_vars

\* ===================================================== the offline pipeline
\* Text is a sequence of tokens: the punctuation of the message format, the
\* blank, the zero-width mark U+200E (LRM) and words.
SP == " "
LRM == "U+200E"
SEP == "\n\n"

\* The lines a chat export is made of.
LineSet ==
    { <<"[", "1", "]", SP, "A", ":", SP, "hi">>,
      <<SP, "[", "2", "]", SP, "B", ":", SP, "yo", SP>>,
      <<"[", "3", "]", SP, "A", ":", SP, LRM, "image">>,
      <<"[", "4", "]", SP, "B", ":", SP, "C", SP, "left">>,
      <<"more", ":", SP, "text">>,
      <<LRM, "[", "5", "]", SP, "A", ":", SP, "sticker">>,
      <<SP>> }

RECURSIVE SeqsUpTo(_, _)
SeqsUpTo(S, n) ==
    IF n = 0 THEN { << >> }
    ELSE LET shorter == SeqsUpTo(S, n - 1)
         IN shorter \cup {Append(q, x) : q \in {y \in shorter : Len(y) = n - 1}, x \in S}

\* str.strip(): U+200E is not whitespace.
RECURSIVE LStrip(_)
LStrip(t) == IF t # << >> /\ Head(t) = SP THEN LStrip(Tail(t)) ELSE t

RECURSIVE RStrip(_)
RStrip(t) ==
    IF t # << >> /\ t[Len(t)] = SP THEN RStrip(SubSeq(t, 1, Len(t) - 1)) ELSE t

Strip(t) == LStrip(RStrip(t))

\* indicator in message
Contains(t, ind) ==
    \E i \in 1 .. (Len(t) - Len(ind) + 1) : SubSeq(t, i, i + Len(ind) - 1) = ind

\* First position after `from` that holds token c (0: none).
FirstAt(t, c, from) ==
    LET hits == {i \in (from + 1) .. Len(t) : t[i] = c}
    IN IF hits = {} THEN 0 ELSE Min(hits)

\* re.match(r'^\[([^\]]+)\]\s+([^:]+):\s+(.*)$', line) and the strip of the
\* three groups; << >> stands for None.
parse_whatsapp_message(line) ==
    IF line = << >> \/ Head(line) # "[" THEN << >>
    ELSE LET j == FirstAt(line, "]", 1)
             c == FirstAt(line, ":", j)
         IN IF /\ j >= 3
               /\ j + 1 <= Len(line) /\ line[j + 1] = SP
               /\ c >= j + 3
               /\ c + 2 <= Len(line) /\ line[c + 1] = SP
              THEN << [timestamp |-> Strip(SubSeq(line, 2, j - 1)),
                       sender |-> Strip(SubSeq(line, j + 2, c - 1)),
                       message |-> Strip(SubSeq(line, c + 2, Len(line)))] >>
              ELSE << >>

system_indicators ==
    { <<LRM>>,
      <<"added">>, <<"removed">>, <<"left">>, <<"joined">>,
      <<"created", SP, "this", SP, "group">>,
      <<"changed", SP, "the", SP, "group">>,
      <<"Messages", SP, "and", SP, "calls", SP, "are", SP, "end-to-end", SP, "encrypted">>,
      <<"changed", SP, "this", SP, "group's", SP, "icon">> }

is_system_message_no_mark(message) ==
    \E ind \in system_indicators \ {<<LRM>>} : Contains(message, ind)

is_system_message(message) ==
    \E ind \in system_indicators : Contains(message, ind)

\* if current_message and not is_system_message(...): messages.append(...)
Flush(msgs, cur) ==
    IF cur # << >> /\ ~is_system_message(cur[1].message)
        THEN Append(msgs, cur[1])
        ELSE msgs

\* current_message['message'] += ' ' + line
Continue_dropped(cur, line) == cur

Continue_opens(cur, line) ==
    IF cur # << >>
        THEN << [cur[1] EXCEPT !.message = @ \o <<SP>> \o line] >>
        ELSE << [timestamp |-> << >>, sender |-> << >>, message |-> line] >>

Continue(cur, line) ==
    IF cur # << >>
        THEN << [cur[1] EXCEPT !.message = @ \o <<SP>> \o line] >>
        ELSE cur

\* One iteration of `for line in f` of read_whatsapp_chat.
ReadLine ==
    /\ ppc = "read"
    /\ pos < Len(lines)
    /\ pos' = pos + 1
    /\ LET line == Strip(lines[pos + 1])
           parsed == parse_whatsapp_message(line)
       IN IF line = << >>
            THEN UNCHANGED <<messages, current_message>>
            ELSE IF parsed # << >>
                   THEN /\ messages' = Flush(messages, current_message)
                        /\ current_message' = parsed
                   ELSE /\ current_message' = Continue(current_message, line)
                        /\ UNCHANGED messages
    /\ UNCHANGED <<lines, chunk_size, chunks>>
    /\ UNCHANGED ppc
    /\ UNCHANGED svars

\* End of the file: the last message is flushed; main() stops when no
\* message was found and chunks the messages otherwise.
EndOfInput ==
    /\ ppc = "read"
    /\ pos = Len(lines)
    /\ messages' = Flush(messages, current_message)
    /\ ppc' = IF messages' = << >> THEN "empty" ELSE "chunk"
    /\ UNCHANGED <<lines, pos, current_message, chunk_size, chunks>>
    /\ UNCHANGED svars

\* ------------------------------------------------------------ chunk_messages
\* f"[{msg['timestamp']}] {msg['sender']}: {msg['message']}"
Render(msg) ==
    <<"[">> \o msg.timestamp \o <<"]", SP>> \o msg.sender \o <<":", SP>> \o msg.message

\* sep.join(parts)
RECURSIVE Join(_, _)
Join(parts, sep) ==
    IF parts = << >> THEN << >>
    ELSE IF Len(parts) = 1 THEN parts[1]
    ELSE parts[1] \o sep \o Join(Tail(parts), sep)

\* messages[i:i + chunk_size], i counted from 0
Window_overlap(msgs, i, n) ==
    SubSeq(msgs, IF i > 0 THEN i ELSE 1, IF i + n < Len(msgs) THEN i + n ELSE Len(msgs))

Window(msgs, i, n) ==
    SubSeq(msgs, i + 1, IF i + n < Len(msgs) THEN i + n ELSE Len(msgs))

\* The orders in which list(set(...)) can enumerate a set.
Orders(S) ==
    {q \in SeqsUpTo(S, Cardinality(S)) :
        Len(q) = Cardinality(S) /\ {q[i] : i \in 1 .. Len(q)} = S}

\* The chunk built from one window, with its senders enumerated as `order`.
MakeChunk_end_is_start(window, order) ==
    [text |-> Join([i \in 1 .. Len(window) |-> Render(window[i])], <<SEP>>),
     metadata |->
        [start_timestamp |-> window[1].timestamp,
         end_timestamp |-> window[1].timestamp,
         num_messages |-> Len(window),
         senders |-> Join(order, <<",", SP>>)]]

MakeChunk(window, order) ==
    [text |-> Join([i \in 1 .. Len(window) |-> Render(window[i])], <<SEP>>),
     metadata |->
        [start_timestamp |-> window[1].timestamp,
         end_timestamp |-> window[Len(window)].timestamp,
         num_messages |-> Len(window),
         senders |-> Join(order, <<",", SP>>)]]

\* One iteration of `for i in range(0, len(messages), chunk_size)`.
ChunkWindow ==
    /\ ppc = "chunk"
    /\ Len(chunks) * chunk_size < Len(messages)
    /\ LET window == Window(messages, Len(chunks) * chunk_size, chunk_size)
       IN \E order \in Orders({window[i].sender : i \in 1 .. Len(window)}) :
            chunks' = Append(chunks, MakeChunk(window, order))
    /\ UNCHANGED <<lines, pos, messages, current_message, chunk_size, ppc>>
    /\ UNCHANGED svars

\* The loop of chunk_messages is over: return chunks.
ChunkReturn ==
    /\ ppc = "chunk"
    /\ Len(chunks) * chunk_size >= Len(messages)
    /\ ppc' = "done"
    /\ UNCHANGED <<lines, pos, messages, current_message, chunk_size, chunks>>
    /\ UNCHANGED svars

InitParse ==
    /\ sessions = << >>
    /\ lists = << >>
    /\ req = [k \in Slots |-> Idle]
    /\ arrived = 0
    /\ now = 0
    /\ last = NoOp
    /\ lines \in SeqsUpTo(LineSet, MaxLines)
    /\ chunk_size \in 1 .. MaxChunk
    /\ pos = 0
    /\ messages = << >>
    /\ current_message = << >>
    /\ chunks = << >>
    /\ ppc = "read"
    /\ OffIdle

NextParse ==
    \/ ReadLine
    \/ EndOfInput
    \/ ChunkWindow
    \/ ChunkReturn

SpecParse == InitParse /\ [][NextParse]_vars

\* ============================================================== the indexer
\* The chat service is not running while a script runs.
ServiceIdle ==
    /\ sessions = << >>
    /\ lists = << >>
    /\ req = [k \in Slots |-> Idle]
    /\ arrived = 0
    /\ now = 0
    /\ last = NoOp

\* The chunk at position p of a long export: one message per chunk.
ChunkAt(p) ==
    MakeChunk(<< [timestamp |-> <<ToString(p)>>, sender |-> <<"A">>,
                  message |-> <<"km", SP, ToString(p)>>] >>,
              << <<"A">> >>)

ChunkSeq(n) == [p \in 1 .. n |-> ChunkAt(p - 1)]

\* A chunk of an older export.
OldChunk ==
    MakeChunk(<< [timestamp |-> <<"old">>, sender |-> <<"B">>,
                  message |-> <<"old", SP, "run">>] >>,
              << <<"B">> >>)

\* The embedding provider (text-embedding-3-small) is outside the
\* repository: a deterministic map from a text to a vector, here with one
\* integer coordinate.
embedding(text) == Len(text)

\* f"chunk_{i+j}"
vector_id_in_batch(i, j) == "chunk_" \o ToString(j)

vector_id(i, j) == "chunk_" \o ToString(i + j)

\* One entry of collection.add(embeddings=, documents=, metadatas=, ids=).
chroma_entry(chunk) ==
    [embedding |-> embedding(chunk.text),
     document |-> chunk.text,
     metadata |-> chunk.metadata]

\* metadata = chunk['metadata'].copy(); metadata['text'] = chunk['text']
pinecone_vector(chunk) ==
    [values |-> embedding(chunk.text),
     metadata |-> [text |-> chunk.text] @@ chunk.metadata]

\* What the run of backend be stores for a chunk.
StoredAs(be, chunk) ==
    IF be = "chroma" THEN chroma_entry(chunk) ELSE pinecone_vector(chunk)

\* What an export indexed earlier left in the store of backend be.
OldVectors(be) ==
    [id \in {"chunk_0", "chunk_1", "chunk_" \o ToString(MaxChunks + 1)} |->
        StoredAs(be, OldChunk)]

\* chunks[i:i + batch_size]
Batch(chs, i) ==
    SubSeq(chs, i + 1, IF i + batch_size < Len(chs) THEN i + batch_size ELSE Len(chs))

\* The store after collection.add / index.upsert of the batch at offset i.
\* Pinecone's upsert overwrites a vector that has the id; Chroma's add
\* keeps the one it has.
Written(be, vectors, i, batch) ==
    LET ids == {vector_id(i, j) : j \in 0 .. (Len(batch) - 1)}
        at(id) == batch[1 + CHOOSE j \in 0 .. (Len(batch) - 1) : vector_id(i, j) = id]
    IN [id \in DOMAIN vectors \cup ids |->
          IF id \in ids /\ (be = "pinecone" \/ id \notin DOMAIN vectors)
            THEN StoredAs(be, at(id))
            ELSE vectors[id]]

\* The store the run of backend be writes.
StoreOf(be) == IF be = "chroma" THEN collection ELSE pindex

\* Chroma: delete_collection (its failure ignored), create_collection.
\* Pinecone: create_index when the index is not listed, else
\* index.delete(delete_all=True).
recreate_keep(be, store) ==
    [exists |-> TRUE, vectors |-> store.vectors]

recreate(be, store) ==
    IF be = "chroma" \/ ~store.exists
        THEN [exists |-> TRUE, vectors |-> << >>]
        ELSE [store EXCEPT !.vectors = << >>]

SetStore(be, store) ==
    /\ collection' = IF be = "chroma" THEN store ELSE collection
    /\ pindex' = IF be = "pinecone" THEN store ELSE pindex

\* The run starts: the store is emptied.
IndexStart ==
    /\ ipc = "start"
    /\ SetStore(backend, recreate(backend, StoreOf(backend)))
    /\ ipc' = "batch"
    /\ batch_i' = 0
    /\ calls' = << >>
    /\ UNCHANGED <<backend, runs>>
    /\ UNCHANGED xvars
    /\ UNCHANGED <<sessions, lists, req, arrived, now, last>>
    /\ UNCHANGED <<lines, pos, messages, current_message, chunk_size, chunks, ppc>>

\* A call of the set-up raises (create_collection, list_indexes,
\* create_index, delete): main() reports the error and the script ends.
IndexStartFails ==
    /\ ipc = "start"
    /\ ipc' = "crashed"
    /\ UNCHANGED <<backend, collection, pindex, batch_i, calls, runs>>
    /\ UNCHANGED xvars
    /\ UNCHANGED <<sessions, lists, req, arrived, now, last>>
    /\ UNCHANGED <<lines, pos, messages, current_message, chunk_size, chunks, ppc>>

\* One iteration of the batch loop without an exception: one embedding
\* request for the texts of the batch, then one write.
BatchSucceeds ==
    /\ ipc = "batch"
    /\ batch_i < Len(chunks)
    /\ LET batch == Batch(chunks, batch_i)
           store == StoreOf(backend)
       IN /\ SetStore(backend, [store EXCEPT !.vectors =
                                    Written(backend, @, batch_i, batch)])
          /\ calls' = Append(calls, [i |-> batch_i, n |-> Len(batch), ok |-> TRUE])
    /\ batch_i' = batch_i + batch_size
    /\ UNCHANGED <<backend, ipc, runs>>
    /\ UNCHANGED xvars
    /\ UNCHANGED <<sessions, lists, req, arrived, now, last>>
    /\ UNCHANGED <<lines, pos, messages, current_message, chunk_size, chunks, ppc>>

\* except Exception: print(...); continue
on_batch_error_break(i, n) == n

on_batch_error(i, n) == i + batch_size

\* One iteration in which embeddings.create or the write raises: nothing
\* of the batch is written.
BatchFails ==
    /\ ipc = "batch"
    /\ batch_i < Len(chunks)
    /\ calls' = Append(calls, [i |-> batch_i, n |-> Len(Batch(chunks, batch_i)),
                               ok |-> FALSE])
    /\ batch_i' = on_batch_error(batch_i, Len(chunks))
    /\ UNCHANGED <<backend, collection, pindex, ipc, runs>>
    /\ UNCHANGED xvars
    /\ UNCHANGED <<sessions, lists, req, arrived, now, last>>
    /\ UNCHANGED <<lines, pos, messages, current_message, chunk_size, chunks, ppc>>

\* The loop is over.
IndexReturn ==
    /\ ipc = "batch"
    /\ batch_i >= Len(chunks)
    /\ ipc' = "done"
    /\ UNCHANGED <<backend, collection, pindex, batch_i, calls, runs>>
    /\ UNCHANGED xvars
    /\ UNCHANGED <<sessions, lists, req, arrived, now, last>>
    /\ UNCHANGED <<lines, pos, messages, current_message, chunk_size, chunks, ppc>>

\* The script is run again on the same export.
IndexAgain ==
    /\ ipc = "done"
    /\ runs < MaxRuns
    /\ runs' = runs + 1
    /\ ipc' = "start"
    /\ UNCHANGED <<backend, collection, pindex, batch_i, calls>>
    /\ UNCHANGED xvars
    /\ UNCHANGED <<sessions, lists, req, arrived, now, last>>
    /\ UNCHANGED <<lines, pos, messages, current_message, chunk_size, chunks, ppc>>

\* main() has parsed and chunked an export; the store is absent or holds
\* what an older export left.
InitIndex ==
    /\ ServiceIdle
    /\ lines = << >>
    /\ pos = 0
    /\ messages = << >>
    /\ current_message = << >>
    /\ chunk_size = 1
    /\ \E n \in 0 .. MaxChunks : chunks = ChunkSeq(n)
    /\ ppc = "done"
    /\ backend \in {"chroma", "pinecone"}
    /\ \E old \in {NoStore, [exists |-> TRUE, vectors |-> OldVectors(backend)]} :
          /\ collection = IF backend = "chroma" THEN old ELSE NoStore
          /\ pindex = IF backend = "pinecone" THEN old ELSE NoStore
    /\ ipc = "start"
    /\ batch_i = 0
    /\ calls = << >>
    /\ runs = 1
    /\ vectors_to_upsert = << >>
    /\ documents = << >>
    /\ searches = << >>

NextIndex ==
    \/ IndexStart
    \/ IndexStartFails
    \/ BatchSucceeds
    \/ BatchFails
    \/ IndexReturn
    \/ IndexAgain

SpecIndex == InitIndex /\ [][NextIndex]_vars

\* ============================================================ the migration
\* The positions whose id is in the store, in increasing order: the order
\* in which collection.get returns what the indexing run added.
StoredPositions(vectors) ==
    SelectSeq([p \in 1 .. (MaxChunks + 2) |-> p - 1],
              LAMBDA p : vector_id(0, p) \in DOMAIN vectors)

\* metadata_with_text = metadata.copy() if metadata else {};
\* metadata_with_text['text'] = document
migrated_vector_no_text(id, entry) ==
    [id |-> id, values |-> entry.embedding, metadata |-> entry.metadata]

migrated_vector(id, entry) ==
    [id |-> id,
     values |-> entry.embedding,
     metadata |-> [text |-> entry.document] @@ entry.metadata]

\* index.upsert(vectors=batch): a vector replaces the one that has its id.
Upserted(vectors, batch) ==
    LET ids == {batch[j].id : j \in 1 .. Len(batch)}
        at(id) == batch[CHOOSE j \in 1 .. Len(batch) : batch[j].id = id]
    IN [id \in DOMAIN vectors \cup ids |->
          IF id \in ids
            THEN [values |-> at(id).values, metadata |-> at(id).metadata]
            ELSE vectors[id]]

\* Steps 1 and 2: the index is created when it is not listed, and used
\* as it is otherwise.
MigrateSetup ==
    /\ ipc = "m_start"
    /\ pindex' = IF pindex.exists THEN pindex
                                  ELSE [exists |-> TRUE, vectors |-> << >>]
    /\ ipc' = "m_load"
    /\ UNCHANGED <<backend, collection, batch_i, calls, runs, xvars>>
    /\ UNCHANGED <<sessions, lists, req, arrived, now, last>>
    /\ UNCHANGED <<lines, pos, messages, current_message, chunk_size, chunks, ppc>>

\* Steps 3 and 4: the script stops when the collection cannot be loaded
\* or is empty, and prepares one vector per entry otherwise.
MigrateLoad ==
    /\ ipc = "m_load"
    /\ IF ~collection.exists \/ DOMAIN collection.vectors = {}
         THEN /\ ipc' = "m_stopped"
              /\ UNCHANGED <<vectors_to_upsert, batch_i>>
         ELSE /\ LET ps == StoredPositions(collection.vectors)
                 IN vectors_to_upsert' =
                       [j \in 1 .. Len(ps) |->
                           migrated_vector(vector_id(0, ps[j]),
                                           collection.vectors[vector_id(0, ps[j])])]
              /\ batch_i' = 0
              /\ ipc' = "m_upsert"
    /\ UNCHANGED <<backend, collection, pindex, calls, runs, documents, searches>>
    /\ UNCHANGED <<sessions, lists, req, arrived, now, last>>
    /\ UNCHANGED <<lines, pos, messages, current_message, chunk_size, chunks, ppc>>

\* One iteration of the upsert loop.
UpsertBatch ==
    /\ ipc = "m_upsert"
    /\ batch_i < Len(vectors_to_upsert)
    /\ pindex' = [pindex EXCEPT !.vectors =
                      Upserted(@, Batch(vectors_to_upsert, batch_i))]
    /\ batch_i' = batch_i + batch_size
    /\ UNCHANGED <<backend, collection, ipc, calls, runs, xvars>>
    /\ UNCHANGED <<sessions, lists, req, arrived, now, last>>
    /\ UNCHANGED <<lines, pos, messages, current_message, chunk_size, chunks, ppc>>

\* index.upsert raises: nothing catches it, the script ends part-way.
UpsertFails ==
    /\ ipc = "m_upsert"
    /\ batch_i < Len(vectors_to_upsert)
    /\ ipc' = "m_crashed"
    /\ UNCHANGED <<backend, collection, pindex, batch_i, calls, runs, xvars>>
    /\ UNCHANGED <<sessions, lists, req, arrived, now, last>>
    /\ UNCHANGED <<lines, pos, messages, current_message, chunk_size, chunks, ppc>>

\* The loop is over: MIGRATION COMPLETE.
MigrateReturn ==
    /\ ipc = "m_upsert"
    /\ batch_i >= Len(vectors_to_upsert)
    /\ ipc' = "migrated"
    /\ UNCHANGED <<backend, collection, pindex, batch_i, calls, runs, xvars>>
    /\ UNCHANGED <<sessions, lists, req, arrived, now, last>>
    /\ UNCHANGED <<lines, pos, messages, current_message, chunk_size, chunks, ppc>>

\* What a Chroma indexing run over n chunks left when the batches in
\* `skipped` failed.
ChromaAfterRun(n, skipped) ==
    [id \in {vector_id(0, p) : p \in {q \in 0 .. (n - 1) :
                                        (q \div batch_size) + 1 \notin skipped}} |->
        chroma_entry(ChunkAt(CHOOSE p \in 0 .. (n - 1) : vector_id(0, p) = id))]

\* The Chroma collection is absent or was written by an indexing run; the
\* Pinecone index is absent, empty, or holds what an older export left.
InitMigrate ==
    /\ ServiceIdle
    /\ ParseIdle
    /\ backend = "pinecone"
    /\ \/ collection = NoStore
       \/ \E n \in 0 .. MaxChunks, skipped \in {{}, {1}, {2}} :
             collection = [exists |-> TRUE, vectors |-> ChromaAfterRun(n, skipped)]
    /\ pindex \in {NoStore,
                   [exists |-> TRUE, vectors |-> << >>],
                   [exists |-> TRUE, vectors |-> OldVectors("pinecone")]}
    /\ ipc = "m_start"
    /\ batch_i = 0
    /\ calls = << >>
    /\ runs = 0
    /\ vectors_to_upsert = << >>
    /\ documents = << >>
    /\ searches = << >>

NextMigrate ==
    \/ MigrateSetup
    \/ MigrateLoad
    \/ UpsertBatch
    \/ UpsertFails
    \/ MigrateReturn

SpecMigrate == InitMigrate /\ [][NextMigrate]_vars

\* ============================================================ the retriever
\* The questions searched for, and the coordinates the provider gave the
\* stored chunks.
Queries == { <<"run">>, <<"long", SP, "run">> }

Coords == {1, 2}

Abs(x) == IF x < 0 THEN 0 - x ELSE x

\* The stores are outside the repository: a store ranks its vectors by
\* their similarity to the query vector, highest first, vectors of equal
\* similarity in the order they were added, and answers with the first
\* top_k of them.
similarity(qe, v) == 0 - Abs(qe - v)

ValueOf(be, entry) == IF be = "chroma" THEN entry.embedding ELSE entry.values

PositionOf(id) == CHOOSE p \in 0 .. (MaxChunks + 1) : vector_id(0, p) = id

RECURSIVE RankIds(_, _, _, _)
RankIds(be, vectors, qe, ids) ==
    IF ids = {} THEN << >>
    ELSE LET sim(id) == similarity(qe, ValueOf(be, vectors[id]))
             best == CHOOSE id \in ids : \A o \in ids :
                        \/ sim(id) > sim(o)
                        \/ sim(id) = sim(o) /\ PositionOf(id) <= PositionOf(o)
         IN <<best>> \o RankIds(be, vectors, qe, ids \ {best})

TopK(be, vectors, qe, k) ==
    LET ranked == RankIds(be, vectors, qe, DOMAIN vectors)
    IN SubSeq(ranked, 1, IF k < Len(ranked) THEN k ELSE Len(ranked))

\* index.query(vector=, top_k=, include_metadata=True)
pinecone_query(vectors, qe, k) ==
    LET top == TopK("pinecone", vectors, qe, k)
    IN [matches |-> [j \in 1 .. Len(top) |->
                        [id |-> top[j],
                         score |-> similarity(qe, vectors[top[j]].values),
                         metadata |-> vectors[top[j]].metadata]]]

\* collection.query(query_embeddings=[...], n_results=): one list of
\* ids and one of documents per query embedding.
chroma_query(vectors, qe, k) ==
    LET top == TopK("chroma", vectors, qe, k)
    IN [ids |-> << top >>,
        documents |-> << [j \in 1 .. Len(top) |-> vectors[top[j]].document] >>]

\* documents = []
new_documents_kept(prev) == prev

new_documents(prev) == << >>

\* for match in results['matches']: if 'metadata' in match and 'text' in
\* match['metadata']: documents.append(match['metadata']['text'])
RECURSIVE append_texts_reversed(_, _)
append_texts_reversed(docs, matches) ==
    IF matches = << >> THEN docs
    ELSE append_texts_reversed(
            IF "text" \in DOMAIN Head(matches).metadata
                THEN <<Head(matches).metadata.text>> \o docs
                ELSE docs,
            Tail(matches))

RECURSIVE append_texts(_, _)
append_texts(docs, matches) ==
    IF matches = << >> THEN docs
    ELSE append_texts(
            IF "text" \in DOMAIN Head(matches).metadata
                THEN Append(docs, Head(matches).metadata.text)
                ELSE docs,
            Tail(matches))

\* search_whatsapp_context of app_flask.py; prev is the list the name
\* documents was bound to before.
search_pinecone(prev, query, n_results) ==
    LET results == pinecone_query(pindex.vectors, embedding(query), n_results)
        ids == [j \in 1 .. Len(results.matches) |-> results.matches[j].id]
    IN [matches |-> ids,
        documents |-> IF results.matches # << >>
                         THEN append_texts(new_documents(prev), results.matches)
                         ELSE new_documents(prev)]

\* search_whatsapp_context of app_prod.py
search_chroma(query, n_results) ==
    LET results == chroma_query(collection.vectors, embedding(query), n_results)
    IN [matches |-> results.ids[1],
        documents |-> IF results.documents # << >>
                         THEN results.documents[1]
                         ELSE << >>]

\* One call of search_whatsapp_context(query, n_results).
Search(query, n_results) ==
    /\ ipc = "serve"
    /\ Len(searches) < MaxSearches
    /\ LET found == IF backend = "pinecone"
                       THEN search_pinecone(documents, query, n_results)
                       ELSE search_chroma(query, n_results)
       IN /\ documents' = found.documents
          /\ searches' = Append(searches,
                                [query |-> query, k |-> n_results,
                                 matches |-> found.matches,
                                 result |-> found.documents])
    /\ UNCHANGED <<backend, collection, pindex, ipc, batch_i, calls, runs,
                   vectors_to_upsert>>
    /\ UNCHANGED <<sessions, lists, req, arrived, now, last>>
    /\ UNCHANGED <<lines, pos, messages, current_message, chunk_size, chunks, ppc>>

\* The vectors of an index: the chunk at position p is stored when
\* coord[p] is a coordinate, and the Pinecone vector at position `bare`
\* was written without the text in its metadata.
IndexedAs(be, coord, bare) ==
    [id \in {vector_id(0, p) : p \in {q \in DOMAIN coord : coord[q] \in Coords}} |->
        LET p == PositionOf(id)
        IN IF be = "chroma"
             THEN [chroma_entry(ChunkAt(p)) EXCEPT !.embedding = coord[p]]
             ELSE IF p = bare
                    THEN [values |-> coord[p], metadata |-> ChunkAt(p).metadata]
                    ELSE [pinecone_vector(ChunkAt(p)) EXCEPT !.values = coord[p]]]

\* The app is serving: its store exists and holds up to MaxVecs vectors;
\* the session store is empty or holds an earlier session.
InitSearch ==
    /\ \/ sessions = << >> /\ lists = << >>
       \/ /\ sessions = (1 :> [history |-> 1, last_access |-> 0])
          /\ lists = (1 :> EarlierTurn)
    /\ req = [k \in Slots |-> Idle]
    /\ arrived = 0
    /\ now = 0
    /\ last = NoOp
    /\ ParseIdle
    /\ backend \in {"chroma", "pinecone"}
    /\ \E coord \in [0 .. (MaxVecs - 1) -> Coords \cup {0}],
          bare \in (IF backend = "pinecone" THEN 0 .. MaxVecs ELSE {MaxVecs}) :
          LET store == [exists |-> TRUE, vectors |-> IndexedAs(backend, coord, bare)]
          IN /\ collection = IF backend = "chroma" THEN store ELSE NoStore
             /\ pindex = IF backend = "pinecone" THEN store ELSE NoStore
    /\ ipc = "serve"
    /\ batch_i = 0
    /\ calls = << >>
    /\ runs = 0
    /\ vectors_to_upsert = << >>
    /\ documents = << >>
    /\ searches = << >>

NextSearch == \E query \in Queries, n_results \in 1 .. MaxK : Search(query, n_results)

SpecSearch == InitSearch /\ [][NextSearch]_vars

\* ==================================================== the service of app_flask
\* The reply of get_ai_response when the completion raises, and the body
\* of the 500 reply of chat's except (it carries str(e)).
Apology ==
    "I apologize, but I encountered an error processing your request. Please try again."

ErrorDetail == "Error processing request: <exception text>"

MessageRequired == "Message is required"

\* The provider calls of one turn, in the order get_ai_response makes them.
ProviderCalls == <<"embeddings.create", "index.query", "chat.completions.create">>

assistant_message(n, text) ==
    [role |-> "assistant", agent |-> "completion", req |-> n, text |-> text]

\* chat() with an empty message: the sweep has run, the reply is a 400.
FlaskBadRequest ==
    /\ arrived < MaxReq
    /\ arrived' = arrived + 1
    /\ LET S1 == cleanup_old_sessions(sessions, now)
       IN /\ sessions' = S1
          /\ lists' = Collect(lists, S1, req)
          /\ last' = [NoOp EXCEPT !.op = "bad_request", !.n = arrived + 1,
                                  !.swept = DOMAIN sessions \ DOMAIN S1,
                                  !.response = MessageRequired]
    /\ UNCHANGED <<req, now>>
    /\ UNCHANGED pvars

\* chat() up to its first provider call: sweep, get or create the session,
\* refresh last_access, append the user message; get_ai_response then
\* starts the search with the query embedding.
FlaskChatBegin(k, given, m) ==
    /\ FreeSlot(k)
    /\ arrived < MaxReq
    /\ arrived' = arrived + 1
    /\ \E sid \in (IF given = NoSid THEN FreshIds ELSE {given}) :
        LET n == arrived + 1
            S1 == cleanup_old_sessions(sessions, now)
            S3 == chat_store(sessions, sid, NewRef(lists), now)
            ref == S3[sid].history
            L2 == IF ref \in DOMAIN lists THEN lists ELSE (ref :> << >>) @@ lists
            L3 == [L2 EXCEPT ![ref] = Append(@, user_message(n, m))]
            R3 == [req EXCEPT ![k] = [Idle EXCEPT !.pc = ProviderCalls[1], !.n = n,
                                                  !.sid = sid, !.hist = ref]]
        IN /\ sessions' = S3
           /\ req' = R3
           /\ lists' = Collect(L3, S3, R3)
           /\ last' = [NoOp EXCEPT !.op = "chat", !.n = n, !.sid = sid,
                                   !.swept = DOMAIN sessions \ DOMAIN S1,
                                   !.hit = sid \in DOMAIN S1]
    /\ UNCHANGED <<now>>
    /\ UNCHANGED pvars

\* embeddings.create, then index.query, returns: the next call is made.
FlaskSearchStep(k) ==
    /\ req[k].pc \in {ProviderCalls[1], ProviderCalls[2]}
    /\ req' = [req EXCEPT ![k].pc = IF @ = ProviderCalls[1] THEN ProviderCalls[2]
                                                           ELSE ProviderCalls[3]]
    /\ last' = [NoOp EXCEPT !.op = "returned", !.n = req[k].n, !.sid = req[k].sid,
                            !.ran = <<req[k].pc>>]
    /\ UNCHANGED <<sessions, lists, arrived, now>>
    /\ UNCHANGED pvars

\* What chat() replies when the provider call `call` raises: only the
\* completion is inside get_ai_response's try; an exception of the search
\* reaches chat's except.
failure_reply(call) ==
    IF call = "chat.completions.create" THEN Apology ELSE ErrorDetail

\* A call of the search raises: chat's except answers 500; the user
\* message stays in the session's list.
FlaskSearchFails(k) ==
    /\ req[k].pc \in {ProviderCalls[1], ProviderCalls[2]}
    /\ LET R1 == [req EXCEPT ![k] = Idle]
       IN /\ req' = R1
          /\ lists' = Collect(lists, sessions, R1)
    /\ last' = [NoOp EXCEPT !.op = "failed", !.n = req[k].n, !.sid = req[k].sid,
                            !.ran = <<req[k].pc>>,
                            !.response = failure_reply(req[k].pc)]
    /\ UNCHANGED <<sessions, arrived, now>>
    /\ UNCHANGED pvars

\* The completion returns or raises (failed): response_text is the
\* completion or the apology; chat appends it, stores the list back and
\* replies.  A session swept in the meantime makes the store raise KeyError
\* inside chat's try.
FlaskCompletionEnds(k, failed, text) ==
    /\ req[k].pc = ProviderCalls[3]
    /\ LET sid == req[k].sid
           ref == req[k].hist
           response_text == IF failed THEN failure_reply(req[k].pc) ELSE text
           L1 == extend(lists, ref, << assistant_message(req[k].n, response_text) >>)
           ok == sid \in DOMAIN sessions
           S1 == IF ok THEN store_back(sessions, sid, ref) ELSE sessions
           R1 == [req EXCEPT ![k] = Idle]
       IN /\ sessions' = S1
          /\ req' = R1
          /\ lists' = Collect(L1, S1, R1)
          /\ last' = [NoOp EXCEPT !.op = IF ~ok THEN "error"
                                         ELSE IF failed THEN "failed" ELSE "reply",
                                  !.n = req[k].n, !.sid = sid, !.hit = ok,
                                  !.ran = <<req[k].pc>>,
                                  !.response = IF ok THEN response_text ELSE ErrorDetail]
    /\ UNCHANGED <<arrived, now>>
    /\ UNCHANGED pvars

\* A turn served earlier by this service.
FlaskEarlierTurn == << user_message(0, "m1"), assistant_message(0, "a1") >>

InitFlask ==
    /\ \/ sessions = << >> /\ lists = << >>
       \/ /\ sessions = (1 :> [history |-> 1, last_access |-> 0])
          /\ lists = (1 :> FlaskEarlierTurn)
    /\ req = [k \in Slots |-> Idle]
    /\ arrived = 0
    /\ now = 0
    /\ last = NoOp
    /\ ParseIdle
    /\ OffIdle

NextFlask ==
    \/ FlaskBadRequest
    \/ \E k \in Slots, given \in SessionIds \cup {NoSid}, m \in Msgs : FlaskChatBegin(k, given, m)
    \/ \E k \in Slots : FlaskSearchStep(k)
    \/ \E k \in Slots : FlaskSearchFails(k)
    \/ \E k \in Slots, failed \in BOOLEAN, text \in Replies : FlaskCompletionEnds(k, failed, text)
    \/ \E s \in SessionIds : reset_session(s)
    \/ Tick

SpecFlask == InitFlask /\ [][NextFlask]_vars

\* ---------------------------------------------------------- steps, by name
Responders == {"training_info", "event_name", "agent"}

Expired(s) == now - sessions[s].last_access > IdleTimeout

\* The step is the first segment of a chat request / a reset request.
ChatStep == arrived' = arrived + 1

ResetStep == last'.op = "reset" /\ now' = now /\ req' = req

\* ------------------------------------------------------------------- claims

\* C1: routing is a total, deterministic function of the IntentSignal: a
\* non-empty training_goal selects the archive Q&A responder whatever
\* event_info is, an empty training_goal with a non-empty event_info selects
\* the event lookup, and both empty selects the fallback.
C1_RoutingByPriority ==
    \A k \in Slots : req[k].pc = "respond" =>
        LET tg == req[k].intent.training_goal
            ei == req[k].intent.event_info
        IN /\ tg # "" => req[k].ran = <<"training_info">>
           /\ (tg = "" /\ ei # "") => req[k].ran = <<"event_name">>
           /\ (tg = "" /\ ei = "") => req[k].ran = <<"agent">>

C1_Witness ==
    \E k \in Slots :
        /\ req[k].pc = "respond"
        /\ req[k].intent.training_goal # ""
        /\ req[k].intent.event_info # ""
        /\ req[k].ran = <<"training_info">>

\* C2: in every chat turn that reaches dispatch exactly one of the three
\* responders is run, never zero and never two: the dispatch starts one
\* responder, and no list ever holds two responder replies of one request.
C2_ExactlyOneResponder ==
    /\ last.op \in {"greeting", "reply"} =>
            Len(last.ran) = 1 /\ last.ran[1] \in Responders
    /\ \A k \in Slots : req[k].pc = "respond" =>
            Len(req[k].ran) = 1 /\ req[k].ran[1] \in Responders
    /\ \A x \in DOMAIN lists : \A n \in ReqIds :
            Cardinality({i \in 1 .. Len(lists[x]) :
                            /\ lists[x][i].req = n
                            /\ lists[x][i].role = "assistant"
                            /\ lists[x][i].agent \in Responders}) <= 1

C2_Witness ==
    /\ last.op = "reply"
    /\ last.ran = <<"agent">>
    /\ Last(History(last.sid)).agent = "agent"

\* C3: when two chat requests for the same session overlap, their history
\* updates are serialized: in the session's history the records of each
\* request form one block, the user turn directly followed by the records
\* of its own request.
C3_Serialized ==
    \A s \in DOMAIN sessions :
        LET h == History(s)
        IN \A i, j \in 1 .. Len(h) :
              (i < j /\ h[i].req = h[j].req) =>
                  \A m \in i .. j : h[m].req = h[i].req

\* text.split(sep) for a text that is a join of non-empty parts
RECURSIVE Split(_, _)
Split(t, sep) ==
    LET cut == FirstAt(t, sep, 0)
    IN IF cut = 0 THEN <<t>>
       ELSE <<SubSeq(t, 1, cut - 1)>> \o Split(SubSeq(t, cut + 1, Len(t)), sep)

RECURSIVE Flatten(_)
Flatten(ss) == IF ss = << >> THEN << >> ELSE Head(ss) \o Flatten(Tail(ss))

\* C4: for a message sequence of length L and chunk size N >= 1,
\* chunk_messages returns exactly ceil(L/N) chunks, every chunk but the last
\* holds exactly N messages and the last between 1 and N, and reading the
\* chunks' rendered messages in chunk order gives back every input message
\* exactly once in the original order.
C4_LosslessPartition ==
    ppc = "done" =>
        LET L == Len(messages)
            N == chunk_size
            parts == [c \in 1 .. Len(chunks) |-> Split(chunks[c].text, SEP)]
        IN /\ Len(chunks) = (L + N - 1) \div N
           /\ \A c \in 1 .. Len(chunks) :
                 /\ c < Len(chunks) => Len(parts[c]) = N
                 /\ Len(parts[c]) >= 1 /\ Len(parts[c]) <= N
                 /\ chunks[c].metadata.num_messages = Len(parts[c])
           /\ Flatten(parts) = [i \in 1 .. L |-> Render(messages[i])]

C4_Witness ==
    /\ ppc = "done"
    /\ Len(messages) = 4
    /\ chunk_size = 3
    /\ Len(chunks) = 2
    /\ chunks[2].metadata.num_messages = 1

\* C5: no message in read_whatsapp_chat's output has a text containing the
\* zero-width system marker, whether the marker arrived on the message's
\* first line or on a later continuation line appended to it.
C5_NoMarkerInOutput ==
    \A i \in 1 .. Len(messages) : ~Contains(messages[i].message, <<LRM>>)

C5_Witness ==
    /\ ppc = "done"
    /\ \E i \in 1 .. (Len(lines) - 1) :
          LET head == parse_whatsapp_message(Strip(lines[i]))
          IN /\ head # << >>
             /\ ~is_system_message(head[1].message)
             /\ parse_whatsapp_message(Strip(lines[i + 1])) = << >>
             /\ Contains(lines[i + 1], <<LRM>>)
             /\ \A m \in 1 .. Len(messages) :
                    messages[m].timestamp # head[1].timestamp

\* C6: after reset on an existing session its history has length 0 and the
\* session is still in the store under the same session_id; the chat
\* request that follows with that session_id leaves the session with the
\* one new user turn, on the same entry (not a new one) when the session is
\* within the idle timeout.
C6_ResetKeepsSession ==
    [][ /\ (last'.op = "reset" /\ last'.hit) =>
              /\ last'.sid \in DOMAIN sessions'
              /\ lists'[sessions'[last'.sid].history] = << >>
        /\ (ChatStep /\ last'.after_reset) =>
              /\ last'.sid \in DOMAIN sessions'
              /\ Len(lists'[sessions'[last'.sid].history]) = 1
              /\ lists'[sessions'[last'.sid].history][1].role = "user"
              /\ lists'[sessions'[last'.sid].history][1].req = last'.n
              /\ ~Expired(last'.sid) =>
                    /\ last'.hit
                    /\ sessions'[last'.sid].history = sessions[last'.sid].history
      ]_vars

C6_Witness ==
    /\ last.op = "chat"
    /\ last.after_reset
    /\ last.hit
    /\ last.n > 1

\* C7: after every run of the sweep no session whose last_access is more
\* than the idle timeout before the sweep time remains in the store, and
\* every session whose last_access is within the timeout is still present
\* with its history unchanged (the request's own session then receives the
\* user turn of the request).
C7_SweepRemovesExactlyExpired ==
    [][ ChatStep =>
          /\ \A s \in DOMAIN sessions' :
                ~(now - sessions'[s].last_access > IdleTimeout)
          /\ \A s \in DOMAIN sessions :
                IF Expired(s)
                  THEN s # last'.sid => s \notin DOMAIN sessions'
                  ELSE /\ s \in DOMAIN sessions'
                       /\ sessions'[s].history = sessions[s].history
                       /\ s # last'.sid =>
                            /\ sessions'[s] = sessions[s]
                            /\ lists'[sessions'[s].history] = History(s)
                       /\ s = last'.sid =>
                            SubSeq(lists'[sessions'[s].history], 1, Len(History(s)))
                                = History(s)
      ]_vars

C7_Witness ==
    /\ last.op = "chat"
    /\ last.swept # {}
    /\ last.sid \notin last.swept
    /\ last.hit
    /\ Len(History(last.sid)) > 1

\* C8 as written: every request handled by the service, chat and reset
\* alike, performs the sweep before it reads or changes any session, so
\* after its first segment no session past the idle timeout is in the store.
C8_EveryRequestSweeps ==
    [][ (ChatStep \/ ResetStep) =>
          \A s \in DOMAIN sessions' :
              ~(now - sessions'[s].last_access > IdleTimeout)
      ]_vars

\* C8 amended: every chat request performs the sweep before it reads or
\* changes any session, so a session past the idle timeout is never read
\* (a request that names one starts from an empty history); a reset request
\* does not sweep and removes no session.
C8_ChatSweepsFirst ==
    [][ /\ ChatStep =>
              /\ last'.swept = {s \in DOMAIN sessions : Expired(s)}
              /\ \A s \in last'.swept : s # last'.sid => s \notin DOMAIN sessions'
              /\ last'.sid \in last'.swept =>
                    /\ Len(lists'[sessions'[last'.sid].history]) = 1
                    /\ lists'[sessions'[last'.sid].history][1].req = last'.n
        /\ ResetStep => DOMAIN sessions' = DOMAIN sessions
      ]_vars

C8_Witness ==
    /\ last.op = "chat"
    /\ last.sid \in last.swept
    /\ ~last.hit

\* C9: between two resets of a session its history only grows by appends at
\* the end: over every step that is not a reset of the session (and not the
\* replacement of the session after its expiry) the history before the step
\* is a prefix of the history after it.
C9_AppendOnly ==
    [][ \A s \in DOMAIN sessions \cap DOMAIN sessions' :
          (/\ ~(ResetStep /\ last'.sid = s)
           /\ ~(ChatStep /\ last'.sid = s /\ Expired(s)))
              => IsPrefix(History(s), lists'[sessions'[s].history])
      ]_vars

\* C10: when a chat request returns successfully, the reply of the selected
\* responder has been appended to the session's history and is its last
\* record at the moment the request returns.
C10_ReplyIsLastRecord ==
    last.op = "reply" =>
        /\ last.sid \in DOMAIN sessions
        /\ History(last.sid) # << >>
        /\ Last(History(last.sid)) =
              [role |-> "assistant", agent |-> last.ran[1], req |-> last.n,
               text |-> last.response]

C10_Witness ==
    /\ last.op = "reply"
    /\ Len(History(last.sid)) >= 4
    /\ History(last.sid)[Len(History(last.sid)) - 1].role = "tool"
    /\ Last(History(last.sid)).text = last.response

\* C11: the classifier's output is not kept: after a chat request completes,
\* the session's history holds no record produced by the intent classifier
\* (only user turns and responder records), so the next turn's classifier
\* input holds no earlier classifier output.
C11_NoClassifierRecordKept ==
    last.op = "reply" =>
        \A i \in 1 .. Len(History(last.sid)) :
            History(last.sid)[i].agent # "greeting"

\* Records of the classifier for request n in list x.
GreetingRecords(L, x, n) ==
    {i \in 1 .. Len(L[x]) : L[x][i].agent = "greeting" /\ L[x][i].req = n}

\* C12: in every chat turn the classifier is invoked exactly once, before
\* any responder runs, on the session's whole ordered history up to and
\* including the user message of the turn; a request starts with no
\* classification result, and the responder is started by the step in which
\* the turn's own classification returns.
C12_ClassifiedOncePerTurn ==
    [][ /\ ChatStep =>
              /\ last'.input = lists'[sessions'[last'.sid].history]
              /\ Last(last'.input).role = "user"
              /\ Last(last'.input).req = last'.n
              /\ \E k \in Slots :
                    /\ req[k].pc = "idle"
                    /\ req'[k].pc = "classify"
                    /\ req'[k].n = last'.n
        /\ \A k \in Slots :
              /\ req'[k].pc = "classify" =>
                    /\ req'[k].intent = NoIntent
                    /\ req'[k].ran = << >>
                    /\ GreetingRecords(lists', req'[k].hist, req'[k].n) = {}
              /\ req'[k].pc = "respond" =>
                    /\ req[k].pc \in {"classify", "respond"}
                    /\ req'[k].n = req[k].n
                    /\ Cardinality(GreetingRecords(lists', req'[k].hist, req'[k].n)) = 1
              /\ (req[k].pc = "classify" /\ req'[k].pc = "respond") =>
                    /\ last'.op = "greeting"
                    /\ last'.n = req[k].n
                    /\ req'[k].ran = last'.ran
        /\ \A x \in DOMAIN lists' : \A n \in ReqIds :
              /\ Cardinality(GreetingRecords(lists', x, n)) <= 1
              /\ \A i \in 1 .. Len(lists'[x]) :
                    (lists'[x][i].req = n /\ lists'[x][i].agent \in Responders) =>
                        \E j \in GreetingRecords(lists', x, n) : j < i
      ]_vars

C12_Witness ==
    /\ last.op = "chat"
    /\ last.hit
    /\ Len(last.input) >= 4
    /\ last.input = History(last.sid)

\* ceil(n / batch_size)
NumBatches(n) == (n + batch_size - 1) \div batch_size

\* C13: in an indexing run a batch whose embedding or write fails is skipped
\* without retry and every later batch is still attempted: the embedding
\* provider is called exactly once per batch of up to 100 chunks, in batch
\* order, and when the run ends the index holds the vectors of exactly the
\* batches that succeeded, before or after a failed one.
C13_FailedBatchSkipped ==
    /\ \A b \in 1 .. Len(calls) :
          /\ calls[b].i = (b - 1) * batch_size
          /\ calls[b].n >= 1
          /\ calls[b].n <= batch_size
          /\ calls[b].n = Min({batch_size, Len(chunks) - calls[b].i})
    /\ ipc = "done" =>
          /\ Len(calls) = NumBatches(Len(chunks))
          /\ \A b \in 1 .. Len(calls) : \A j \in 0 .. (calls[b].n - 1) :
                ("chunk_" \o ToString(calls[b].i + j)
                      \in DOMAIN StoreOf(backend).vectors) <=> calls[b].ok

C13_Witness ==
    /\ ipc = "done"
    /\ Len(calls) = 3
    /\ calls[1].ok /\ ~calls[2].ok /\ calls[3].ok
    /\ "chunk_99" \in DOMAIN StoreOf(backend).vectors
    /\ "chunk_100" \notin DOMAIN StoreOf(backend).vectors
    /\ "chunk_200" \in DOMAIN StoreOf(backend).vectors

\* C14: an indexing run replaces the index: whatever the store held before,
\* after the run every vector it holds was written by this run from the
\* run's chunks, and a run without a batch failure leaves exactly one vector
\* per chunk, so a second run on the same chunks leaves what one run leaves.
C14_RunReplacesIndex ==
    ipc = "done" =>
        LET store == StoreOf(backend)
        IN /\ store.exists
           /\ \A id \in DOMAIN store.vectors :
                 \E b \in 1 .. Len(calls) :
                     /\ calls[b].ok
                     /\ \E p \in calls[b].i .. (calls[b].i + calls[b].n - 1) :
                           /\ id = "chunk_" \o ToString(p)
                           /\ store.vectors[id] = StoredAs(backend, chunks[p + 1])
           /\ (\A b \in 1 .. Len(calls) : calls[b].ok) =>
                 store.vectors =
                     [id \in {"chunk_" \o ToString(p) : p \in 0 .. (Len(chunks) - 1)} |->
                         StoredAs(backend,
                                  chunks[1 + CHOOSE p \in 0 .. (Len(chunks) - 1) :
                                                id = "chunk_" \o ToString(p)])]

C14_Witness ==
    /\ ipc = "done"
    /\ runs = 2
    /\ Len(calls) = 2
    /\ \A b \in 1 .. Len(calls) : calls[b].ok
    /\ Cardinality(DOMAIN StoreOf(backend).vectors) = Len(chunks)

\* Chunks written by the requests that succeeded.
RECURSIVE WrittenCount(_)
WrittenCount(cs) ==
    IF cs = << >> THEN 0
    ELSE (IF Head(cs).ok THEN Head(cs).n ELSE 0) + WrittenCount(Tail(cs))

\* C15: every vector written by an indexing run has id chunk_<p>, p the
\* 0-based position of its chunk in the whole chunk sequence; the ids
\* written in a run are pairwise distinct (as many vectors are stored as
\* chunks were written), and the vector under chunk_<p> carries the
\* embedding, text and metadata of the chunk at position p, also when an
\* earlier batch was skipped.
C15_AbsolutePositionIds ==
    ipc \in {"batch", "done"} =>
        LET vectors == StoreOf(backend).vectors
        IN /\ \A id \in DOMAIN vectors :
                 \E p \in 0 .. (Len(chunks) - 1) :
                     /\ id = "chunk_" \o ToString(p)
                     /\ IF backend = "chroma"
                          THEN /\ vectors[id].document = chunks[p + 1].text
                               /\ vectors[id].metadata = chunks[p + 1].metadata
                               /\ vectors[id].embedding = embedding(chunks[p + 1].text)
                          ELSE /\ vectors[id].metadata.text = chunks[p + 1].text
                               /\ \A key \in DOMAIN chunks[p + 1].metadata :
                                     vectors[id].metadata[key] = chunks[p + 1].metadata[key]
                               /\ vectors[id].values = embedding(chunks[p + 1].text)
           /\ Cardinality(DOMAIN vectors) = WrittenCount(calls)

C15_Witness ==
    /\ ipc = "done"
    /\ Len(calls) = 2
    /\ ~calls[1].ok /\ calls[2].ok
    /\ "chunk_0" \notin DOMAIN StoreOf(backend).vectors
    /\ "chunk_100" \in DOMAIN StoreOf(backend).vectors
    /\ backend = "pinecone"
    /\ pindex.vectors["chunk_100"].metadata.text = chunks[101].text

\* The vector the migration makes of the source entry under id.
Carried(id) ==
    /\ id \in DOMAIN pindex.vectors
    /\ pindex.vectors[id].values = collection.vectors[id].embedding
    /\ pindex.vectors[id].metadata.text = collection.vectors[id].document
    /\ DOMAIN pindex.vectors[id].metadata
          = DOMAIN collection.vectors[id].metadata \cup {"text"}
    /\ \A key \in DOMAIN collection.vectors[id].metadata :
          pindex.vectors[id].metadata[key] = collection.vectors[id].metadata[key]

\* C16 as written: after a completed migration the target index holds, for
\* every vector of the source collection, a vector with the same id,
\* embedding and metadata (the chunk text under 'text'), no embedding call
\* was made, and the target holds the same set of vectors as the source.
C16_TargetEqualsSource ==
    ipc = "migrated" =>
        /\ \A id \in DOMAIN collection.vectors : Carried(id)
        /\ calls = << >>
        /\ DOMAIN pindex.vectors = DOMAIN collection.vectors

\* C16 amended: after a completed migration the target index holds, for
\* every vector of the source collection, a vector with the same id,
\* embedding and metadata (the chunk text under 'text'), and no embedding
\* call was made; the migration removes nothing from the target, so the
\* target holds the source's vectors and, unchanged, the vectors it already
\* held under other ids.
C16_TargetHoldsSource ==
    [][ /\ ipc' = "migrated" =>
              /\ \A id \in DOMAIN collection'.vectors :
                    /\ id \in DOMAIN pindex'.vectors
                    /\ pindex'.vectors[id].values = collection'.vectors[id].embedding
                    /\ pindex'.vectors[id].metadata
                          = [text |-> collection'.vectors[id].document]
                                @@ collection'.vectors[id].metadata
              /\ calls' = << >>
        /\ collection' = collection
        /\ DOMAIN pindex'.vectors \subseteq
                DOMAIN pindex.vectors \cup DOMAIN collection.vectors
        /\ \A id \in DOMAIN pindex.vectors :
              /\ id \in DOMAIN pindex'.vectors
              /\ id \notin DOMAIN collection.vectors =>
                    pindex'.vectors[id] = pindex.vectors[id]
      ]_vars

C16_Witness ==
    /\ ipc = "migrated"
    /\ Len(vectors_to_upsert) > batch_size
    /\ "chunk_0" \notin DOMAIN collection.vectors
    /\ "chunk_100" \in DOMAIN collection.vectors
    /\ pindex.vectors["chunk_100"].metadata.text = collection.vectors["chunk_100"].document
    /\ "chunk_0" \in DOMAIN pindex.vectors
    /\ pindex.vectors["chunk_0"].metadata.text = OldChunk.text

\* The text the store holds for a vector, << >> when it holds none.
StoredText(id) ==
    IF backend = "chroma" THEN <<collection.vectors[id].document>>
    ELSE IF "text" \in DOMAIN pindex.vectors[id].metadata
           THEN <<pindex.vectors[id].metadata.text>>
           ELSE << >>

\* C17: for every query and K the retriever returns at most K chunk texts,
\* the texts of the store's ranked matches in the order of the match list
\* (decreasing similarity); when the store returns no match the result is
\* the empty sequence.
C17_TopKInRankOrder ==
    \A a \in 1 .. Len(searches) :
        LET s == searches[a]
            qe == embedding(s.query)
            val(id) == ValueOf(backend, StoreOf(backend).vectors[id])
        IN /\ Len(s.result) <= s.k
           /\ Len(s.matches) <= s.k
           /\ s.result = Flatten([j \in 1 .. Len(s.matches) |-> StoredText(s.matches[j])])
           /\ s.matches = << >> => s.result = << >>
           /\ \A i, j \in 1 .. Len(s.matches) :
                 i < j => similarity(qe, val(s.matches[i])) >= similarity(qe, val(s.matches[j]))

C17_Witness ==
    /\ backend = "pinecone"
    /\ Cardinality(DOMAIN pindex.vectors) = 3
    /\ \E a \in 1 .. Len(searches) :
          /\ searches[a].k = 2
          /\ Len(searches[a].result) = 2
          /\ searches[a].matches = <<"chunk_2", "chunk_0">>
          /\ searches[a].result = <<ChunkAt(2).text, ChunkAt(0).text>>

C19_FailureGivesApology ==
    [][ \A k \in Slots :
          (req[k].pc # "idle" /\ last'.op = "failed" /\ last'.n = req[k].n) =>
              /\ req'[k].pc = "idle"
              /\ last'.response = Apology
      ]_vars

\* C20 as written: reset on an existing session changes only that session's
\* history: the session identifier and the last_access timestamp are the
\* same after the reset as before it.
C20_ResetKeepsTimestamp ==
    [][ (ResetStep /\ last'.hit) =>
          /\ DOMAIN sessions' = DOMAIN sessions
          /\ \A s \in DOMAIN sessions :
                sessions'[s].last_access = sessions[s].last_access
      ]_vars

\* C20 amended: reset on an existing session changes only that session's
\* entry: the session stays in the store under the same identifier with an
\* empty history and its last_access set to the time of the reset; every
\* other session, and every running request, is left as it was.
C20_ResetRefreshesTimestamp ==
    [][ (ResetStep /\ last'.hit) =>
          /\ DOMAIN sessions' = DOMAIN sessions
          /\ lists'[sessions'[last'.sid].history] = << >>
          /\ sessions'[last'.sid].last_access = now
          /\ \A s \in DOMAIN sessions \ {last'.sid} :
                /\ sessions'[s] = sessions[s]
                /\ lists'[sessions'[s].history] = History(s)
          /\ req' = req
      ]_vars

C20_Witness ==
    /\ last.op = "reset"
    /\ last.hit
    /\ arrived = 0
    /\ now = MaxTime
    /\ sessions[last.sid].last_access = now

\* C21: every append of a turn record to a session's history refreshes the
\* session's last_access: after the user turn is appended, and again after
\* the assistant reply is appended and stored, last_access is not earlier
\* than the time of that append.
C21_AppendRefreshesAccess ==
    [][ /\ ChatStep => sessions'[last'.sid].last_access >= now'
        /\ (last'.op = "reply" /\ req' # req) =>
                sessions'[last'.sid].last_access >= now'
      ]_vars

\* The branch an IntentSignal is routed to.
Route(int) ==
    IF int.training_goal # "" THEN "ARCHIVE_QA"
    ELSE IF int.event_info # "" THEN "EVENT_LOOKUP"
    ELSE "FALLBACK"

\* C22: the fallback branch calls neither the archive's file search nor the
\* web search, and the web search is called only in the event lookup
\* branch: a turn routed to ARCHIVE_QA or FALLBACK never issues a web
\* search, and a turn routed to EVENT_LOOKUP never queries the archive.
C22_ToolsByBranch ==
    [][ \A k \in Slots :
          (req[k].pc = "respond" /\ req'[k].pc = "idle") =>
              LET branch == Route(req[k].intent)
              IN /\ branch = "FALLBACK" => last'.called = {}
                 /\ branch = "ARCHIVE_QA" => "web_search_preview" \notin last'.called
                 /\ branch = "EVENT_LOOKUP" => "file_search" \notin last'.called
                 /\ "web_search_preview" \in last'.called => branch = "EVENT_LOOKUP"
      ]_vars

C22_Witness ==
    /\ last.op = "reply"
    /\ last.ran = <<"event_name">>
    /\ last.called = {"web_search_preview"}

\* ------------------------------------------------- the export, line by line
NonBlank(l) == Strip(l) # << >>

\* The positions of the lines that open a message.
Headers == {i \in 1 .. Len(lines) : parse_whatsapp_message(Strip(lines[i])) # << >>}

\* The position of the header after h (past the end: none).
NextHeader(h) ==
    LET later == {j \in Headers : j > h}
    IN IF later = {} THEN Len(lines) + 1 ELSE Min(later)

\* The text of the message opened at h: its first line and the non-blank
\* lines up to the next header, joined by blanks.
FinalText(h) ==
    LET rest == SelectSeq(SubSeq(lines, h + 1, NextHeader(h) - 1), NonBlank)
    IN Join(<<parse_whatsapp_message(Strip(lines[h]))[1].message>>
                \o [i \in 1 .. Len(rest) |-> Strip(rest[i])], <<SP>>)

KeptHeaders == {h \in Headers : ~is_system_message(FinalText(h))}

\* The k-th kept header, in input order.
KeptAt(k) == CHOOSE h \in KeptHeaders : Cardinality({x \in KeptHeaders : x < h}) = k - 1

\* C23: read_whatsapp_chat returns exactly the messages opened by header
\* lines whose final text (first line and continuation lines, joined by
\* blanks) contains no system indicator, in input order and each once; the
\* decision is taken on the final text, and the last open message is
\* emitted at the end of the input.
C23_OutputIsKeptHeaders ==
    ppc \in {"empty", "chunk", "done"} =>
        /\ Len(messages) = Cardinality(KeptHeaders)
        /\ \A k \in 1 .. Len(messages) :
              LET head == parse_whatsapp_message(Strip(lines[KeptAt(k)]))[1]
              IN /\ messages[k].timestamp = head.timestamp
                 /\ messages[k].sender = head.sender
                 /\ messages[k].message = FinalText(KeptAt(k))

C23_Witness ==
    /\ ppc = "done"
    /\ \E h \in Headers \ KeptHeaders :
          ~is_system_message(parse_whatsapp_message(Strip(lines[h]))[1].message)
    /\ \E h \in KeptHeaders :
          /\ NextHeader(h) = Len(lines) + 1
          /\ FinalText(h) # parse_whatsapp_message(Strip(lines[h]))[1].message
          /\ Last(messages).message = FinalText(h)

\* C24: a non-blank line that is not a message header and arrives while no
\* message is open is dropped: the reader goes on, and neither the output
\* nor the open message changes; a blank line never changes the open
\* message or the output.
C24_OrphanAndBlankLinesDropped ==
    [][ (ppc = "read" /\ pos' = pos + 1) =>
          LET line == lines[pos + 1]
              orphan == /\ NonBlank(line)
                        /\ parse_whatsapp_message(Strip(line)) = << >>
                        /\ current_message = << >>
          IN (orphan \/ ~NonBlank(line)) =>
                /\ messages' = messages
                /\ current_message' = current_message
                /\ ppc' = "read"
      ]_vars

C24_Witness ==
    /\ ppc = "done"
    /\ NonBlank(lines[1])
    /\ 1 \notin Headers
    /\ \E i \in 2 .. Len(lines) : ~NonBlank(lines[i]) /\ (i - 1) \in Headers
    /\ Len(messages) = 2

\* The messages of the c-th chunk.
ChunkMessages(c) ==
    SubSeq(messages, (c - 1) * chunk_size + 1,
           IF c * chunk_size < Len(messages) THEN c * chunk_size ELSE Len(messages))

\* The names listed in a senders field.
SendersListed(field) ==
    LET parts == Split(field, ",")
    IN [i \in 1 .. Len(parts) |-> Strip(parts[i])]

\* C25: for every chunk, start_timestamp is the timestamp of the chunk's
\* first message and end_timestamp that of its last message, the message
\* count is the number of messages in the chunk, and the senders field
\* lists each distinct sender of the chunk exactly once.
C25_ChunkMetadata ==
    \A c \in 1 .. Len(chunks) :
        LET msgs == ChunkMessages(c)
            meta == chunks[c].metadata
            listed == SendersListed(meta.senders)
        IN /\ meta.start_timestamp = msgs[1].timestamp
           /\ meta.end_timestamp = msgs[Len(msgs)].timestamp
           /\ meta.num_messages = Len(msgs)
           /\ {listed[i] : i \in 1 .. Len(listed)} = {msgs[i].sender : i \in 1 .. Len(msgs)}
           /\ \A i, j \in 1 .. Len(listed) : listed[i] = listed[j] => i = j

C25_Witness ==
    /\ ppc = "done"
    /\ chunk_size = 5
    /\ Len(lines) = 2
    /\ Len(messages) = 2
    /\ Len(chunks) = 1
    /\ chunks[1].metadata.start_timestamp = <<"1">>
    /\ chunks[1].metadata.end_timestamp = <<"2">>
    /\ chunks[1].metadata.num_messages = 2
    /\ chunks[1].metadata.senders = <<"B", ",", SP, "A">>

\* C26: a reset that completes while a chat request on the same session is
\* in flight is not undone: a turn record that the reset removed from the
\* session's history is never in it again, also after the request in
\* flight has stored its history back.  Up to time IdleTimeout no session
\* has expired, so a user turn missing from the history of a session that
\* is in the store was appended before and removed by a reset, unless the
\* step is the chat request that appends it.
C26_ResetNotUndone ==
    [][ now' <= IdleTimeout =>
          \A s \in DOMAIN sessions \cap DOMAIN sessions' :
              LET after == lists'[sessions'[s].history]
              IN \A i \in 1 .. Len(after) :
                    (/\ after[i].role = "user"
                     /\ \A j \in 1 .. Len(History(s)) : History(s)[j] # after[i])
                        => (ChatStep /\ after[i].req = arrived')
      ]_vars

\* C27: a session that has a chat request in flight is never removed by
\* another request's sweep in a way that makes the request in flight fail:
\* when the request stores its history back, the session entry it created
\* or looked up is in the store, so no request ends with the KeyError of
\* the store-back.
C27_InFlightSessionKept ==
    [][ \A k \in Slots :
          (req[k].pc = "respond" /\ req'[k].pc = "idle"
                /\ last'.response # None) =>
              /\ req[k].sid \in DOMAIN sessions
              /\ last'.response # SessionGone
      ]_vars

\* The session a step works for: the one named by the handler segment that
\* runs in the step (the clock's step works for none).
ActsOn(s) == (req' # req \/ ResetStep) /\ last'.sid = s

\* C28: sessions are isolated: a segment of a chat or reset request for
\* session A leaves the history and the last_access of every other session
\* B as they were, except that the sweep at the start of a chat request
\* removes B when B is past the idle timeout.
C28_SessionsIsolated ==
    [][ \A b \in DOMAIN sessions :
          ~ActsOn(b) =>
              \/ /\ b \in DOMAIN sessions'
                 /\ sessions'[b].last_access = sessions[b].last_access
                 /\ lists'[sessions'[b].history] = History(b)
              \/ /\ b \notin DOMAIN sessions'
                 /\ ChatStep
                 /\ Expired(b)
      ]_vars

C28_Witness ==
    /\ last.op = "reply"
    /\ \E b \in DOMAIN sessions \ {last.sid} :
          /\ History(b) # << >>
          /\ sessions[b].last_access < now
          /\ sessions[last.sid].last_access = now

\* A history that requests run one at a time can leave: the requests'
\* records in arrival order, each assistant record directly after the user
\* turn of its own request.
OneAtATime(h) ==
    /\ \A i \in 1 .. (Len(h) - 1) : h[i].req <= h[i + 1].req
    /\ \A i \in 1 .. Len(h) :
          h[i].role = "assistant" =>
              i > 1 /\ h[i - 1].role = "user" /\ h[i - 1].req = h[i].req

Alternates(h) ==
    /\ Len(h) % 2 = 0
    /\ \A i \in 1 .. Len(h) :
          h[i].role = IF i % 2 = 1 THEN "user" ELSE "assistant"

\* C29: in the direct-completion service, with the requests on a session
\* run one at a time, after every chat request that returns a reply the
\* session's history has even length and alternates user, assistant from
\* the first record; and a chat request that fails before a reply is
\* produced (the retrieval fails) leaves the history as it was before the
\* request.
C29_AlternatesOrUntouched ==
    [][ \A k \in Slots :
          (/\ req[k].pc # "idle" /\ req'[k].pc = "idle"
           /\ \A j \in Slots \ {k} : req[j].pc = "idle"
           /\ req[k].sid \in DOMAIN sessions /\ req[k].sid \in DOMAIN sessions'
           /\ OneAtATime(History(req[k].sid))
           /\ Last(History(req[k].sid)) = user_message(req[k].n, "m1")) =>
              LET before == SubSeq(History(req[k].sid), 1, Len(History(req[k].sid)) - 1)
                  after == lists'[sessions'[req[k].sid].history]
              IN /\ last'.response \in Replies \cup {Apology} => Alternates(after)
                 /\ last'.response = ErrorDetail => after = before
      ]_vars

\* C30: a chat request that names a session past the idle timeout is served
\* on a new session with an empty history stored under the same
\* session_id: after the request's first segment the history is its user
\* turn alone, the reply carries the session_id that was supplied, and
\* after the request the history holds only the records of this request.
C30_ExpiredSessionRenewed ==
    [][ /\ (ChatStep /\ last'.op = "chat" /\ last'.sid \in DOMAIN sessions
                /\ Expired(last'.sid)) =>
              /\ last'.sid \in DOMAIN sessions'
              /\ lists'[sessions'[last'.sid].history] = <<user_message(arrived', "m1")>>
        /\ \A k \in Slots :
              (req[k].pc = "respond" /\ req'[k].pc = "idle" /\ req[k].renewed
                    /\ last'.op = "reply") =>
                  /\ last'.sid = req[k].sid
                  /\ \A i \in 1 .. Len(lists'[sessions'[last'.sid].history]) :
                        lists'[sessions'[last'.sid].history][i].req = req[k].n
      ]_vars

====
